---- MODULE Spec2Model ----
(***************************************************************************)
(* Model of the User API service in src/files/main.py: module start-up     *)
(* (password check, create_engine), the three FastAPI handlers             *)
(* (get_status, get_users, get_user), the pooled connections they check    *)
(* out, and the MySQL Users table they read.                               *)
(*                                                                         *)
(* Strings whose content matters (usernames, emails) are sequences of      *)
(* one-character strings, so that strip() and e-mail validation are        *)
(* computed, not assumed.  A table row is the positional tuple             *)
(* <<id, username, email>> (row[0], row[1], row[2] in the source).         *)
(*                                                                         *)
(* Library behaviour the source relies on:                                 *)
(*  - sqlalchemy create_engine is lazy: it parses the URL and loads the    *)
(*    driver but opens no connection; the first connection is opened by    *)
(*    engine.connect() inside a handler;                                   *)
(*  - a driver failure in connect/execute/fetch surfaces as a subclass of  *)
(*    SQLAlchemyError; Connection.execute accepts the raw SQL string of    *)
(*    get_user (SQLAlchemy 1.x);                                           *)
(*  - pydantic's ValidationError is a ValueError, hence an Exception that  *)
(*    is neither SQLAlchemyError nor HTTPException.                        *)
(***************************************************************************)
EXTENDS Integers, Sequences, FiniteSets, TLC

(* ---------- bounds ---------- *)
MaxRows == 2

(* ---------- sample data ---------- *)
Requests == {"r1", "r2"}
UserIds == {-1, 0, 1}
GoodName == <<" ", "a">>
BlankName == <<" ">>
GoodEmail == <<"a", "@", "B">>
BadEmail == <<"a", "B">>
Passwords == {"<unset>", "", "pw"}

NoRow == <<>>
NoExc == [cls |-> "none", status |-> 0, msg |-> ""]
NoResp == [kind |-> "none", status |-> 0, detail |-> "", body |-> <<>>]
NoReq == [handler |-> "none", user_id |-> 0]

VARIABLES password, pcMain, engine, dbUp, table,
          pc, req, results, exc, resp, conn, changed, checkedout

vars == <<password, pcMain, engine, dbUp, table,
          pc, req, results, exc, resp, conn, changed, checkedout>>

startVars == <<password, pcMain, engine>>
reqVars == <<pc, req, results, exc, resp, conn, changed, checkedout>>

(* ---------- the Users table ---------- *)
Rows == { <<0, GoodName, GoodEmail>>, <<1, GoodName, GoodEmail>>,
          <<1, BlankName, GoodEmail>>, <<1, GoodName, BadEmail>>,
          <<-1, GoodName, GoodEmail>> }

\* Users.id is the key of the table: no two rows share an id.
IsTable(T) == /\ Cardinality(T) <= MaxRows
              /\ \A x \in T : \A y \in T : x[1] = y[1] => x = y

Tables == {T \in SUBSET Rows : IsTable(T)}

\* SELECT * FROM Users; -- no ORDER BY: any order of the rows.
SelectAll(T) ==
    {s \in [1..Cardinality(T) -> T] : \A i, j \in 1..Cardinality(T) : s[i] = s[j] => i = j}

\* the query without its WHERE clause: fetchone() gives the first row of the table
SelectFirst(T, id) ==
    IF T # {} THEN CHOOSE x \in T : \A y \in T : x[1] <= y[1] ELSE NoRow

\* SELECT * FROM Users WHERE Users.id = %s, then fetchone(): the row or None.
SelectById(T, id) ==
    IF \E x \in T : x[1] = id THEN CHOOSE x \in T : x[1] = id ELSE NoRow

(* ---------- class User ---------- *)
RECURSIVE LStrip(_)
LStrip(s) == IF s # <<>> /\ Head(s) = " " THEN LStrip(Tail(s)) ELSE s

RECURSIVE RStrip(_)
RStrip(s) == IF s # <<>> /\ s[Len(s)] = " " THEN RStrip(SubSeq(s, 1, Len(s) - 1)) ELSE s

\* str.strip()
Strip(s) == RStrip(LStrip(s))

\* @validator('username'): raises when empty after strip, else returns v.strip()
UsernameOk(v) == Strip(v) # <<>>

\* @validator('user_id'): raises when v < 0
UserIdOk(v) == ~(v < 0)

AtPositions(s) == {i \in 1..Len(s) : s[i] = "@"}

\* EmailStr: one "@" with a non-empty local part and a non-empty domain, no blanks
EmailOk(s) == /\ Cardinality(AtPositions(s)) = 1
              /\ \A i \in AtPositions(s) : 1 < i /\ i < Len(s)
              /\ \A i \in 1..Len(s) : s[i] # " "

Lower(c) == IF c = "B" THEN "b" ELSE IF c = "A" THEN "a" ELSE c

\* EmailStr keeps the local part and lower-cases the domain
NormalizeEmail(s) ==
    LET at == CHOOSE i \in AtPositions(s) : TRUE
    IN [i \in 1..Len(s) |-> IF i > at THEN Lower(s[i]) ELSE s[i]]

\* does User(user_id=row[0], username=row[1], email=row[2]) construct?
RowValid(row) == UserIdOk(row[1]) /\ UsernameOk(row[2]) /\ EmailOk(row[3])

\* the User value constructed from a valid row
User(row) == [user_id |-> row[1], username |-> Strip(row[2]), email |-> NormalizeEmail(row[3])]

\* the invariants of a constructed User value
UserInvariant(u) == u.user_id >= 0 /\ Strip(u.username) # <<>> /\ EmailOk(u.email)

(* ---------- start-up ---------- *)
\* `if mysql_password is None`: an empty password passes
PasswordIsNone(p) == p = "<unset>"

\* `if not mysql_password`
PasswordMissing(p) == p = "<unset>" \/ p = ""

Init ==
    /\ password \in Passwords
    /\ pcMain = "check_password"
    /\ engine = "none"
    /\ dbUp \in BOOLEAN
    /\ table \in Tables
    /\ pc = [r \in Requests |-> "idle"]
    /\ req = [r \in Requests |-> NoReq]
    /\ results = [r \in Requests |-> <<>>]
    /\ exc = [r \in Requests |-> NoExc]
    /\ resp = [r \in Requests |-> NoResp]
    /\ conn = [r \in Requests |-> FALSE]
    /\ changed = [r \in Requests |-> FALSE]
    /\ checkedout = 0

\* lines 24-29: a missing password raises ValueError at import time
CheckPassword ==
    /\ pcMain = "check_password"
    /\ pcMain' = IF PasswordMissing(password) THEN "failed" ELSE "create_engine"
    /\ UNCHANGED <<password, engine, dbUp, table>>
    /\ UNCHANGED reqVars

\* lines 35-38: create_engine returns an engine without connecting
CreateEngineOk ==
    /\ pcMain = "create_engine"
    /\ engine' = "created"
    /\ pcMain' = "serving"
    /\ UNCHANGED <<password, dbUp, table>>
    /\ UNCHANGED reqVars

\* lines 39-42: create_engine raises (bad URL, driver not importable); re-raised
CreateEngineFail ==
    /\ pcMain = "create_engine"
    /\ pcMain' = "failed"
    /\ UNCHANGED <<password, engine, dbUp, table>>
    /\ UNCHANGED reqVars

(* ---------- the database, outside the service ---------- *)
MarkChanged == [r \in Requests |-> IF pc[r] = "idle" THEN FALSE ELSE TRUE]

DbGoesDown ==
    /\ dbUp
    /\ dbUp' = FALSE
    /\ changed' = MarkChanged
    /\ UNCHANGED <<table, pc, req, results, exc, resp, conn, checkedout>>
    /\ UNCHANGED startVars

DbComesUp ==
    /\ ~dbUp
    /\ dbUp' = TRUE
    /\ changed' = MarkChanged
    /\ UNCHANGED <<table, pc, req, results, exc, resp, conn, checkedout>>
    /\ UNCHANGED startVars

TableWrite ==
    /\ \E T \in Tables :
          /\ T # table
          /\ \/ \E x \in Rows : T = table \cup {x}
             \/ \E x \in table : T = table \ {x}
          /\ table' = T
    /\ changed' = MarkChanged
    /\ UNCHANGED <<dbUp, pc, req, results, exc, resp, conn, checkedout>>
    /\ UNCHANGED startVars

(* ---------- exceptions and responses ---------- *)
\* what the driver raises when the database cannot be reached
OperationalError == [cls |-> "SQLAlchemyError", status |-> 0, msg |-> "(2003) Can't connect to MySQL server"]

\* what User(...) raises when a validator rejects a field
ValidationError == [cls |-> "ValidationError", status |-> 0, msg |-> "1 validation error for User"]

\* HTTPException(status_code=404, detail='Unknown User ID')
NotFound == [cls |-> "HTTPException", status |-> 404, msg |-> "Unknown User ID"]

HTTPException(status, detail) == [kind |-> "HTTPException", status |-> status, detail |-> detail, body |-> <<>>]

\* a value returned by a handler is serialised with HTTP 200
Return(body) == [kind |-> "return", status |-> 200, detail |-> "", body |-> body]

\* line 37: create_engine(connection_url) takes the QueuePool defaults
PoolSize == 5

MaxOverflow == 10

\* a pool limited to one connection
PoolHasRoomOne(n) == n < 1

\* the pool hands out a connection while fewer than pool_size + max_overflow are out
PoolHasRoom(n) == n < PoolSize + MaxOverflow

\* the pool's count of checked-out connections
Checkout(n) == n + 1

Release(n) == n - 1

(* ---------- GET /status ---------- *)
\* lines 62-66: no database access, always {"status": 1}
GetStatus(r) ==
    /\ pcMain = "serving"
    /\ pc[r] = "idle"
    /\ req' = [req EXCEPT ![r] = [handler |-> "get_status", user_id |-> 0]]
    /\ resp' = [resp EXCEPT ![r] = Return(<<1>>)]
    /\ pc' = [pc EXCEPT ![r] = "done"]
    /\ UNCHANGED <<dbUp, table, results, exc, conn, changed, checkedout>>
    /\ UNCHANGED startVars

(* ---------- leaving the with block ---------- *)
\* the connection opened without `with` and closed only on the success path
RaiseNoRelease(r, e) ==
    /\ exc' = [exc EXCEPT ![r] = e]
    /\ results' = [results EXCEPT ![r] = <<>>]
    /\ pc' = [pc EXCEPT ![r] = "except"]
    /\ UNCHANGED <<resp, conn, checkedout>>

\* exception e leaves the with block: the connection goes back to the pool and
\* the block's locals are gone
RaiseInWith(r, e) ==
    /\ exc' = [exc EXCEPT ![r] = e]
    /\ results' = [results EXCEPT ![r] = <<>>]
    /\ conn' = [conn EXCEPT ![r] = FALSE]
    /\ checkedout' = Release(checkedout)
    /\ pc' = [pc EXCEPT ![r] = "except"]
    /\ UNCHANGED resp

\* `return value` inside the with block: the connection goes back to the pool
ReturnInWith(r, value) ==
    /\ resp' = [resp EXCEPT ![r] = Return(value)]
    /\ conn' = [conn EXCEPT ![r] = FALSE]
    /\ checkedout' = Release(checkedout)
    /\ pc' = [pc EXCEPT ![r] = "done"]
    /\ UNCHANGED <<exc, results>>

(* ---------- GET /users ---------- *)
\* lines 68-71: the request reaches the handler
UsersBegin(r) ==
    /\ pcMain = "serving"
    /\ pc[r] = "idle"
    /\ req' = [req EXCEPT ![r] = [handler |-> "get_users", user_id |-> 0]]
    /\ pc' = [pc EXCEPT ![r] = "connect"]
    /\ UNCHANGED <<dbUp, table, results, exc, resp, conn, changed, checkedout>>
    /\ UNCHANGED startVars

\* line 72: with mysql_engine.connect() as connection -- a connection is
\* checked out, or connect raises and nothing is held
UsersConnect(r) ==
    /\ pc[r] = "connect"
    /\ req[r].handler = "get_users"
    /\ IF dbUp /\ PoolHasRoom(checkedout)
       THEN /\ conn' = [conn EXCEPT ![r] = TRUE]
            /\ checkedout' = Checkout(checkedout)
            /\ pc' = [pc EXCEPT ![r] = "execute"]
            /\ UNCHANGED exc
       ELSE /\ exc' = [exc EXCEPT ![r] = OperationalError]
            /\ pc' = [pc EXCEPT ![r] = "except"]
            /\ UNCHANGED <<conn, checkedout>>
    /\ UNCHANGED <<dbUp, table, req, results, resp, changed>>
    /\ UNCHANGED startVars

\* line 73: connection.execute(text('SELECT * FROM Users;'))
UsersExecute(r) ==
    /\ pc[r] = "execute"
    /\ req[r].handler = "get_users"
    /\ IF dbUp
       THEN /\ \E s \in SelectAll(table) : results' = [results EXCEPT ![r] = s]
            /\ pc' = [pc EXCEPT ![r] = "build"]
            /\ UNCHANGED <<exc, resp, conn, checkedout>>
       ELSE RaiseInWith(r, OperationalError)
    /\ UNCHANGED <<dbUp, table, req, changed>>
    /\ UNCHANGED startVars

\* lines 74-80: is every fetched row accepted by User(...)?
UsersAllValid(rows) == \A i \in 1..Len(rows) : RowValid(rows[i])

\* the list built back to front
UsersListReversed(rows) == [i \in 1..Len(rows) |-> User(rows[Len(rows) + 1 - i])]

\* lines 74-80: users = [User(...) for row in rows]
UsersList(rows) == [i \in 1..Len(rows) |-> User(rows[i])]

\* lines 74-82: fetchall(), build the list, return it (or raise)
UsersBuild(r) ==
    /\ pc[r] = "build"
    /\ req[r].handler = "get_users"
    /\ IF ~dbUp
       THEN RaiseInWith(r, OperationalError)
       ELSE IF UsersAllValid(results[r])
       THEN ReturnInWith(r, UsersList(results[r]))
       ELSE RaiseInWith(r, ValidationError)
    /\ UNCHANGED <<dbUp, table, req, changed>>
    /\ UNCHANGED startVars

\* the first except clause answering with str(e)
UsersClassifyLeak(e) ==
    IF e.cls = "SQLAlchemyError"
    THEN HTTPException(500, e.msg)
    ELSE HTTPException(500, "Internal server error")

\* a single `except Exception` clause that blames the database
UsersClassifyAllDb(e) == HTTPException(500, "Database error occurred")

\* lines 83-91: the except clauses of get_users, in order
UsersClassify(e) ==
    IF e.cls = "SQLAlchemyError"
    THEN HTTPException(500, "Database error occurred")
    ELSE HTTPException(500, "Internal server error")

UsersExcept(r) ==
    /\ pc[r] = "except"
    /\ req[r].handler = "get_users"
    /\ resp' = [resp EXCEPT ![r] = UsersClassify(exc[r])]
    /\ pc' = [pc EXCEPT ![r] = "done"]
    /\ UNCHANGED <<dbUp, table, req, results, exc, conn, changed, checkedout>>
    /\ UNCHANGED startVars

(* ---------- GET /users/{user_id} ---------- *)
\* lines 93-103: the request reaches the handler
UserBegin(r, id) ==
    /\ pcMain = "serving"
    /\ pc[r] = "idle"
    /\ req' = [req EXCEPT ![r] = [handler |-> "get_user", user_id |-> id]]
    /\ pc' = [pc EXCEPT ![r] = "connect"]
    /\ UNCHANGED <<dbUp, table, results, exc, resp, conn, changed, checkedout>>
    /\ UNCHANGED startVars

\* line 104: with mysql_engine.connect() as connection -- a connection is
\* checked out, or connect raises and nothing is held
UserConnect(r) ==
    /\ pc[r] = "connect"
    /\ req[r].handler = "get_user"
    /\ IF dbUp /\ PoolHasRoom(checkedout)
       THEN /\ conn' = [conn EXCEPT ![r] = TRUE]
            /\ checkedout' = Checkout(checkedout)
            /\ pc' = [pc EXCEPT ![r] = "execute"]
            /\ UNCHANGED exc
       ELSE /\ exc' = [exc EXCEPT ![r] = OperationalError]
            /\ pc' = [pc EXCEPT ![r] = "except"]
            /\ UNCHANGED <<conn, checkedout>>
    /\ UNCHANGED <<dbUp, table, req, results, resp, changed>>
    /\ UNCHANGED startVars

\* lines 106-108: connection.execute('... WHERE Users.id = %s', (user_id,))
UserExecute(r) ==
    /\ pc[r] = "execute"
    /\ req[r].handler = "get_user"
    /\ IF dbUp
       THEN /\ results' = [results EXCEPT ![r] = SelectById(table, req[r].user_id)]
            /\ pc' = [pc EXCEPT ![r] = "build"]
            /\ UNCHANGED <<exc, resp, conn, checkedout>>
       ELSE RaiseInWith(r, OperationalError)
    /\ UNCHANGED <<dbUp, table, req, changed>>
    /\ UNCHANGED startVars

\* lines 109-124: fetchone(); 404 when no row, else construct and return the User
UserBuild(r) ==
    /\ pc[r] = "build"
    /\ req[r].handler = "get_user"
    /\ IF ~dbUp
       THEN RaiseInWith(r, OperationalError)
       ELSE IF results[r] = NoRow
       THEN RaiseInWith(r, NotFound)
       ELSE IF RowValid(results[r])
       THEN ReturnInWith(r, <<User(results[r])>>)
       ELSE RaiseInWith(r, ValidationError)
    /\ UNCHANGED <<dbUp, table, req, changed>>
    /\ UNCHANGED startVars

\* an exception no except clause matches leaves the handler
Unhandled(e) == [kind |-> "unhandled", status |-> 500, detail |-> e.msg, body |-> <<>>]

\* get_user with the except clauses of get_users: no `except HTTPException: raise`
UserClassifyNoPassThrough(e) ==
    IF e.cls = "SQLAlchemyError"
    THEN HTTPException(500, "Database error occurred")
    ELSE HTTPException(500, "Internal server error")

\* get_user without the final `except Exception`
UserClassifyNoCatchAll(e) ==
    IF e.cls = "SQLAlchemyError"
    THEN HTTPException(500, "Database error occurred")
    ELSE IF e.cls = "HTTPException"
    THEN HTTPException(e.status, e.msg)
    ELSE Unhandled(e)

\* lines 126-135: the except clauses of get_user, in order
UserClassify(e) ==
    IF e.cls = "SQLAlchemyError"
    THEN HTTPException(500, "Database error occurred")
    ELSE IF e.cls = "HTTPException"
    THEN HTTPException(e.status, e.msg)
    ELSE HTTPException(500, "Internal server error")

UserExcept(r) ==
    /\ pc[r] = "except"
    /\ req[r].handler = "get_user"
    /\ resp' = [resp EXCEPT ![r] = UserClassify(exc[r])]
    /\ pc' = [pc EXCEPT ![r] = "done"]
    /\ UNCHANGED <<dbUp, table, req, results, exc, conn, changed, checkedout>>
    /\ UNCHANGED startVars

(* ---------- the response is sent; the worker takes the next request ---------- *)
Respond(r) ==
    /\ pc[r] = "done"
    /\ pc' = [pc EXCEPT ![r] = "idle"]
    /\ req' = [req EXCEPT ![r] = NoReq]
    /\ results' = [results EXCEPT ![r] = <<>>]
    /\ exc' = [exc EXCEPT ![r] = NoExc]
    /\ resp' = [resp EXCEPT ![r] = NoResp]
    /\ changed' = [changed EXCEPT ![r] = FALSE]
    /\ UNCHANGED <<dbUp, table, conn, checkedout>>
    /\ UNCHANGED startVars

Next ==
    \/ CheckPassword
    \/ CreateEngineOk
    \/ CreateEngineFail
    \/ DbGoesDown
    \/ DbComesUp
    \/ TableWrite
    \/ \E r \in Requests : GetStatus(r)
    \/ \E r \in Requests : UsersBegin(r)
    \/ \E r \in Requests : UsersConnect(r)
    \/ \E r \in Requests : UsersExecute(r)
    \/ \E r \in Requests : UsersBuild(r)
    \/ \E r \in Requests : UsersExcept(r)
    \/ \E r \in Requests : \E id \in UserIds : UserBegin(r, id)
    \/ \E r \in Requests : UserConnect(r)
    \/ \E r \in Requests : UserExecute(r)
    \/ \E r \in Requests : UserBuild(r)
    \/ \E r \in Requests : UserExcept(r)
    \/ \E r \in Requests : Respond(r)

Spec == Init /\ [][Next]_vars

(* ---------- vocabulary of the properties ---------- *)
Done(r, h) == pc[r] = "done" /\ req[r].handler = h

\* neither the table nor the availability of the database changed since r began
Quiet(r) == ~changed[r]

InFlight == {r \in Requests : pc[r] \in {"connect", "execute", "build", "except"}}

HasRow(id) == \E x \in table : x[1] = id

HasValidRow(id) == \E x \in table : x[1] = id /\ RowValid(x)

Is200For(r, id) ==
    /\ resp[r].kind = "return"
    /\ resp[r].status = 200
    /\ Len(resp[r].body) = 1
    /\ resp[r].body[1].user_id = id

NotFound404 == [kind |-> "HTTPException", status |-> 404, detail |-> "Unknown User ID", body |-> <<>>]

DbError500 == [kind |-> "HTTPException", status |-> 500, detail |-> "Database error occurred", body |-> <<>>]

Internal500 == [kind |-> "HTTPException", status |-> 500, detail |-> "Internal server error", body |-> <<>>]

(* ---------- C1 ---------- *)
\* C1 as stated: with the database reachable, GET /users/{id} for any id that
\* has a row in the table answers 200 with a User whose user_id is the id.
C1_AsStated ==
    \A r \in Requests :
        (Done(r, "get_user") /\ Quiet(r) /\ dbUp /\ HasRow(req[r].user_id))
            => Is200For(r, req[r].user_id)

\* C1 (amended): with the database reachable, GET /users/{id} for an id whose
\* row satisfies the User invariants answers 200 with a User whose user_id is
\* the id, and whose username and email are the row's, normalised.
C1_PresentValidRowIs200 ==
    \A r \in Requests :
        (Done(r, "get_user") /\ Quiet(r) /\ dbUp /\ HasValidRow(req[r].user_id))
            => /\ Is200For(r, req[r].user_id)
               /\ \E x \in table : /\ x[1] = req[r].user_id
                                   /\ resp[r].body[1].username = Strip(x[2])
                                   /\ resp[r].body[1].email = NormalizeEmail(x[3])

C1_Witness ==
    \E r \in Requests :
        /\ Done(r, "get_user") /\ Quiet(r) /\ dbUp
        /\ HasValidRow(req[r].user_id)
        /\ Cardinality(table) = 2
        /\ resp[r].status = 200

(* ---------- C2 ---------- *)
\* C2: with the database reachable, GET /users/{id} for an id that has no row
\* answers 404 'Unknown User ID'; and the 404 raised inside the try block
\* always leaves the except clauses as that same 404, never as a 500.
C2_AbsentIs404 ==
    \A r \in Requests :
        /\ (Done(r, "get_user") /\ Quiet(r) /\ dbUp /\ ~HasRow(req[r].user_id))
              => resp[r] = NotFound404
        /\ (Done(r, "get_user") /\ exc[r] = NotFound) => resp[r] = NotFound404

C2_Witness ==
    \E r \in Requests :
        /\ Done(r, "get_user") /\ Quiet(r) /\ dbUp
        /\ ~HasRow(req[r].user_id) /\ table # {}
        /\ exc[r] = NotFound
        /\ resp[r].status = 404

(* ---------- C3 ---------- *)
BodyFollows(body, rows) ==
    /\ Len(body) = Len(rows)
    /\ \A i \in 1..Len(rows) :
          /\ body[i].user_id = rows[i][1]
          /\ body[i].username = Strip(rows[i][2])
          /\ UserInvariant(body[i])

\* C3 as stated: with the database reachable, GET /users answers, for any rows
\* in the table, with an array as long as the table, in the order of the query
\* result, whose elements all satisfy the User invariants.
C3_AsStated ==
    \A r \in Requests :
        (Done(r, "get_users") /\ Quiet(r) /\ dbUp)
            => /\ resp[r].status = 200
               /\ Len(resp[r].body) = Cardinality(table)
               /\ BodyFollows(resp[r].body, results[r])

\* C3 (amended): with the database reachable and every row of the table
\* satisfying the User invariants, GET /users answers 200 with an array as long
\* as the table; and every 200 answer of GET /users has one element per row of
\* the query result, in its order, each satisfying the User invariants.
C3_ValidTableListsAll ==
    \A r \in Requests :
        /\ (Done(r, "get_users") /\ Quiet(r) /\ dbUp /\ \A x \in table : RowValid(x))
              => /\ resp[r].status = 200
                 /\ Len(resp[r].body) = Cardinality(table)
                 /\ {resp[r].body[i].user_id : i \in 1..Len(resp[r].body)} = {x[1] : x \in table}
        /\ (Done(r, "get_users") /\ resp[r].status = 200)
              => BodyFollows(resp[r].body, results[r])

C3_Witness ==
    \E r \in Requests :
        /\ Done(r, "get_users") /\ Quiet(r) /\ dbUp
        /\ Cardinality(table) = 2
        /\ resp[r].status = 200
        /\ resp[r].body[1].user_id > resp[r].body[2].user_id

(* ---------- C4 ---------- *)
\* C4: a data-access error raised by connect, execute or fetch makes GET /users
\* and GET /users/{id} answer 500 'Database error occurred', whatever the id
\* and the table; the answer is that fixed text, not the exception's.
C4_DbDownIs500 ==
    \A r \in Requests :
        /\ ((Done(r, "get_users") \/ Done(r, "get_user")) /\ exc[r].cls = "SQLAlchemyError")
              => (resp[r] = DbError500 /\ resp[r].detail # exc[r].msg)
        /\ ((Done(r, "get_users") \/ Done(r, "get_user")) /\ Quiet(r) /\ ~dbUp)
              => resp[r] = DbError500

C4_Witness ==
    /\ \E r \in Requests : Done(r, "get_users") /\ Quiet(r) /\ ~dbUp /\ resp[r] = DbError500
    /\ \E r \in Requests : Done(r, "get_user") /\ Quiet(r) /\ ~dbUp /\ resp[r] = DbError500
                              /\ HasRow(req[r].user_id)

(* ---------- C5 ---------- *)
\* C5: when no password is configured (unset or empty), start-up never gets
\* past the password check: no engine is created and no request, /status
\* included, is ever handled.
C5_NoPasswordNoService ==
    (password \in {"<unset>", ""})
        => /\ pcMain \in {"check_password", "failed"}
           /\ engine = "none"
           /\ \A r \in Requests : pc[r] = "idle" /\ resp[r] = NoResp

C5_Witness == password = "" /\ pcMain = "failed"

(* ---------- C6 ---------- *)
\* C6 as stated: start-up never enters the serving state while the database
\* cannot be connected to.
C6_AsStated == [][(pcMain # "serving" /\ ~dbUp) => pcMain' # "serving"]_vars

(* ---------- C7 ---------- *)
\* C7: whatever the table, the id and the point of failure, GET /users and
\* GET /users/{id} end in a returned 200, in 404 'Unknown User ID', in 500
\* 'Database error occurred' or in 500 'Internal server error'; no exception
\* leaves a handler unclassified, and GET /users never answers 404.
C7_OutcomesClosed ==
    \A r \in Requests :
        /\ Done(r, "get_user")
              => \/ resp[r].kind = "return" /\ resp[r].status = 200 /\ Len(resp[r].body) = 1
                 \/ resp[r] \in {NotFound404, DbError500, Internal500}
        /\ Done(r, "get_users")
              => \/ resp[r].kind = "return" /\ resp[r].status = 200
                 \/ resp[r] \in {DbError500, Internal500}
        /\ pc[r] = "except" => exc[r] \in {OperationalError, ValidationError, NotFound}

C7_Witness ==
    /\ \E r \in Requests : Done(r, "get_user") /\ exc[r] = ValidationError /\ resp[r] = Internal500
    /\ \E r \in Requests : Done(r, "get_users") /\ resp[r] = DbError500

(* ---------- C8 ---------- *)
\* C8: two GET /users/{id} requests for the same id, with no write to the table
\* and no change of availability since either began, have the same response,
\* whether they ran one after the other or interleaved.
C8_Idempotent ==
    \A r1 \in Requests : \A r2 \in Requests :
        (/\ Done(r1, "get_user") /\ Done(r2, "get_user")
         /\ req[r1].user_id = req[r2].user_id
         /\ Quiet(r1) /\ Quiet(r2))
            => resp[r1] = resp[r2]

C8_Witness ==
    \E r1 \in Requests : \E r2 \in Requests :
        /\ r1 # r2
        /\ Done(r1, "get_user") /\ Done(r2, "get_user")
        /\ req[r1].user_id = req[r2].user_id
        /\ Quiet(r1) /\ Quiet(r2)
        /\ resp[r1].status = 200

(* ---------- C9 ---------- *)
\* C9: only a request inside its with block holds a connection, and it holds
\* one; the pool's count of checked-out connections is the number of such
\* requests, so it never exceeds the requests in flight and is zero once every
\* request has completed, whichever way each one left.
C9_ConnectionsScoped ==
    /\ \A r \in Requests : conn[r] <=> pc[r] \in {"execute", "build"}
    /\ checkedout = Cardinality({r \in Requests : conn[r]})
    /\ checkedout <= Cardinality(InFlight)
    /\ (InFlight = {}) => checkedout = 0

C9_Witness ==
    \E r1 \in Requests : \E r2 \in Requests :
        /\ pc[r1] = "except" /\ exc[r1] = ValidationError
        /\ conn[r2]
        /\ checkedout = 1

(* ---------- C10 ---------- *)
\* C10: with the database reachable, a table holding a row that violates a
\* User invariant makes GET /users answer 500 'Internal server error'; a
\* rejected row always ends in that answer, and a 200 answer of GET /users
\* never leaves out a fetched row.
C10_AllOrNothing ==
    \A r \in Requests :
        /\ (Done(r, "get_users") /\ Quiet(r) /\ dbUp /\ \E x \in table : ~RowValid(x))
              => resp[r] = Internal500
        /\ (Done(r, "get_users") /\ exc[r] = ValidationError) => resp[r] = Internal500
        /\ (Done(r, "get_users") /\ resp[r].status = 200)
              => /\ Len(resp[r].body) = Len(results[r])
                 /\ \A i \in 1..Len(results[r]) : RowValid(results[r][i])

C10_Witness ==
    \E r \in Requests :
        /\ Done(r, "get_users") /\ Quiet(r) /\ dbUp
        /\ \E x \in table : ~RowValid(x)
        /\ \E x \in table : RowValid(x)
        /\ resp[r] = Internal500

====
